---- MODULE Spec2Model ----
(***************************************************************************)
(* A model of the resumable transfer engine of sequential_uploader.py      *)
(* (class RobustUploader and main): one process per command-line           *)
(* invocation, which loads the ledger and the resume store from disk,      *)
(* processes one recipe (download, compress, upload, cleanup) and exits,   *)
(* and which may be killed between any two steps.                          *)
(*                                                                         *)
(* The remote SDKs and the encoder are not code of the repository: what    *)
(* they return (chunk results, errors, output sizes) is chosen             *)
(* nondeterministically from small sets.                                   *)
(***************************************************************************)
EXTENDS Integers, Sequences, FiniteSets, TLC

(* ------------------------------------------------------------------ *)
(* Program constants                                                  *)
(* ------------------------------------------------------------------ *)
MiB == 1048576
ValidSize == 1048576             \* 1024*1024: an artifact larger than this is reused
SmallVideoMB == 10               \* inputs below 10 MB are not compressed
DownloadMaxRetries == 5          \* download_video(max_retries=5)
UploadMaxRetries == 15           \* upload_to_youtube(max_retries=15)
ChunkDelayCap == 30              \* min(2 ** retry_count, 30)
DownloadDelayCap == 60           \* min(2 ** retry_count, 60)
DownloadErrorDelay == 10         \* time.sleep(10)
UploadDelayCap == 120            \* min(2 ** retry_count, 120)
StallLimit == 5                  \* stalled_count > 5
TagCeiling == 490                \* total_tags_length > 490
MinTags == 5                     \* len(tags) > 5
RandomPool == 10                 \* available_recipes[:10], len(...) > 10
DefaultDuration == 120           \* duration_seconds = 120

(* ------------------------------------------------------------------ *)
(* Bounds of the model                                                *)
(* ------------------------------------------------------------------ *)
MaxPublish == 2                  \* confirmations counted per item
MaxFaults == 1                   \* network failures injected into one process
MaxTimeouts == 6                 \* failures counted in one download_video call

Items == {1, 2}                  \* ids of the catalog
UnknownId == 9                   \* an id that is not in the catalog
NoItem == 0                      \* None
Pcts == {0, 50}                  \* progress percentages an upload chunk may report

(* Sizes in bytes.  SmallSrc is valid (> 1 MiB) and below the small-file   *)
(* threshold; BigSrc is compressed; of the encoder's outputs one is        *)
(* accepted (<= 90% of BigSrc) and one is larger than the input.           *)
SmallSrc == 2 * MiB
BigSrc == 20 * MiB
GoodOut == 10 * MiB
LargeOut == 24 * MiB
StubSize == MiB                  \* a truncated file, not larger than ValidSize

VARIABLES
    \* ---- disk
    used_file,          \* used_recipes.json: the set of ids it lists
    resume_file,        \* resume_data.json: sequence of records, in file order
    fs,                 \* temp_videos/: path -> file
    \* ---- catalog and remote source
    recipes,            \* the catalog: sequence of ids, in file order
    url_ok,             \* id -> whether public_url holds '/file/d/<id>'
    other,              \* a second process on the same files (pc "off": none)
    \* ---- the running process (lost when it exits or is killed)
    pc,                 \* where the process is; "idle": no process
    arg,                \* --id of this invocation (NoItem: none)
    used_recipes,       \* self.used_recipes
    resume_data,        \* self.resume_data, in insertion order
    recipe,             \* id of the selected recipe
    original_video_path,
    temp_video_path,
    retry_count, last_progress, stalled_count, response, last_exception,
    result,             \* what process_single_recipe returned
    \* ---- environment
    faults_left,        \* failures the network may still inject (-1: any number)
    \* ---- observations (history)
    published,          \* id -> number of confirmations the destination gave
    calls,              \* stages entered in this run, in order
    sel,                \* what the selection of this run found
    fetched,            \* a request went to the remote source in this download_video call
    dl_failures,        \* timeouts and errors download_video has met in this call
    dl_error,           \* HTTP status of the error next_chunk raised last (0: none)
    dl_pre,             \* the artifact download_video found when it was called
    cp_in,              \* size of the input of this compress_video call
    cp_ret,             \* path the previous compress_video call on this input returned
    slept,              \* error class -> last delay download_video slept in this call
    up_slept,           \* last delay upload_to_youtube slept in this call
    \* ---- tag list of one upload request body
    tag_recipe,         \* the recipe fields the tags are built from
    tags,               \* the local list `tags`
    tag_i,              \* ingredients the loop has gone through
    built,              \* `tags` as it was when the trimming loop started
    tag_pc,             \* position in the tag code of upload_to_youtube
    \* ---- youtube_link_extractor.py
    ext                 \* the extractor: its position, locals and files

disk == <<used_file, resume_file, fs>>
world == <<recipes, url_ok, other>>
\* the network may fail once more
MayFail == faults_left # 0
Spend == faults_left' = IF faults_left > 0 THEN faults_left - 1 ELSE faults_left
locals == <<arg, used_recipes, resume_data, recipe, original_video_path,
            temp_video_path>>
loopv == <<retry_count, last_progress, stalled_count, response, last_exception>>
ctl == <<pc, result, faults_left>>
proc == <<ctl, locals, loopv>>
hist == <<published, calls, sel, fetched, dl_pre, dl_failures, dl_error, cp_in, cp_ret, slept, up_slept>>
tagv == <<tag_recipe, tags, tag_i, built, tag_pc, ext>>
vars == <<disk, world, proc, hist, tagv>>

(* ------------------------------------------------------------------ *)
(* Paths and files                                                    *)
(* ------------------------------------------------------------------ *)
NoPath == <<"none", 0>>
OriginalPath(i) == <<"original", i>>         \* temp_videos/original_<id>.mp4
CompressedPath(i) == <<"compressed", i>>     \* temp_videos/compressed_<id>.mp4
TempVideoPath(i) == <<"temp", i>>             \* ./temp_video_<id>.mp4
\* the files of the temp directory temp_videos/
TempDir == {OriginalPath(i) : i \in Items} \cup {CompressedPath(i) : i \in Items}
Paths == TempDir \cup {TempVideoPath(i) : i \in Items}

NoFile == [size |-> -1, whole |-> FALSE]     \* os.path.exists is False
File(n, w) == [size |-> n, whole |-> w]      \* whole: holds a complete video
Exists(p) == p \in Paths /\ fs[p] # NoFile
SizeOf(p) == fs[p].size

SrcSize(i) == IF i = 1 THEN SmallSrc ELSE BigSrc   \* size of the remote file
Partial(n) == {s \in {StubSize, SmallSrc} : s < n}

\* used_recipes.json opened for writing and not written: an empty file
TruncatedLedger == {-1}

(* ------------------------------------------------------------------ *)
(* The resume store: a dict, kept in insertion order                  *)
(* ------------------------------------------------------------------ *)
\* (a record that does not say which stage it was written for)
Rec_NoStage(i, s, p) == [id |-> i, status |-> "none", video_path |-> p]
\* the record of item i: its stage and, for an upload, the file
Rec(i, s, p) == [id |-> i, status |-> s, video_path |-> p]
Index(d, i) == IF \E k \in 1..Len(d) : d[k].id = i
               THEN CHOOSE k \in 1..Len(d) : d[k].id = i
               ELSE 0
Has(d, i) == Index(d, i) # 0
Get(d, i) == d[Index(d, i)]
\* d[i] = r: an existing key keeps its place, a new key goes last
Put(d, r) == IF Has(d, r.id) THEN [d EXCEPT ![Index(d, r.id)] = r]
             ELSE Append(d, r)
\* (a del that leaves the record in place)
Del_Keeps(d, i) == d
\* del d[i]
Del(d, i) == LET k == Index(d, i)
             IN  IF k = 0 THEN d
                 ELSE [j \in 1..(Len(d) - 1) |-> IF j < k THEN d[j] ELSE d[j + 1]]
Statuses == {"downloading", "compressing", "uploading"}

\* What resume_data.json may hold besides a mapping of records: no file at
\* all, text that is not JSON, and JSON that is not a mapping (a list).
\* <<>> is the file "{}".
Absent == <<[id |-> -1, status |-> "absent", video_path |-> NoPath]>>
NotJson == <<[id |-> -2, status |-> "not json", video_path |-> NoPath]>>
JsonList == <<[id |-> -3, status |-> "list", video_path |-> NoPath]>>
\* __init__: self.resume_data after the load; json.load keeps whatever JSON
\* value the file holds, only JSONDecodeError leaves the store empty
LoadResume(f) == IF f \in {Absent, NotJson} THEN <<>> ELSE f
\* whether self.resume_data is a dict
IsMapping(rd) == rd # JsonList

\* what last_exception holds
Exc(k, st) == [kind |-> k, status |-> st]
NoExc == Exc("none", 0)

Pow2(n) == IF n <= 0 THEN 1 ELSE 2 ^ n
Min(a, b) == IF a < b THEN a ELSE b
Max(a, b) == IF a > b THEN a ELSE b

(* ------------------------------------------------------------------ *)
(* Selection                                                          *)
(* ------------------------------------------------------------------ *)
Ids(rcps) == {rcps[k] : k \in 1..Len(rcps)}
Lowest(S) == CHOOSE i \in S : \A j \in S : i <= j
\* (a random pick among all the available recipes)
LowestN_All(S, n) == S
\* the first n of S sorted by numeric id
LowestN(S, n) == {i \in S : Cardinality({j \in S : j < i}) < n}

\* the first record of the store whose status is one of the three stages
FirstInProgress(rd) ==
    LET ks == {k \in 1..Len(rd) : rd[k].status \in Statuses}
    IN  IF ks = {} THEN NoItem ELSE rd[Lowest(ks)].id

\* (a selection that does not look at the ledger)
GetNextRecipe_NoLedger(rcps, used, rd) == {Lowest(Ids(rcps))}
\* get_next_recipe: the set of recipes it may return (NoItem: None)
GetNextRecipe(rcps, used, rd) ==
    LET available == Ids(rcps) \ used
        resume_recipe_id == FirstInProgress(rd)
    IN  IF available = {} THEN {NoItem}
        ELSE IF resume_recipe_id # NoItem /\ resume_recipe_id \in available
             THEN {resume_recipe_id}
        ELSE {Lowest(available)} \cup
             (IF Cardinality(available) > RandomPool
              THEN LowestN(available, RandomPool) ELSE {})

\* get_recipe_by_id
GetRecipeById(rcps, id) == IF id \in Ids(rcps) THEN id ELSE NoItem

\* (a resume check that never finds an upload to resume)
ResumePath_Never(rd, i) == NoPath
\* (the recorded path is taken without looking for the file)
ResumePath_Unchecked(rd, i) ==
    IF Has(rd, i) /\ Get(rd, i).status = "uploading" THEN Get(rd, i).video_path
    ELSE NoPath
\* the video path process_single_recipe resumes an upload with (NoPath: none)
ResumePath(rd, i) ==
    IF Has(rd, i) /\ Get(rd, i).status = "uploading"
       /\ Get(rd, i).video_path # NoPath /\ Exists(Get(rd, i).video_path)
    THEN Get(rd, i).video_path
    ELSE NoPath

(* ------------------------------------------------------------------ *)
(* Delays                                                             *)
(* ------------------------------------------------------------------ *)
Classes == {"timeout", "server", "other"}
NoSleep == [c \in Classes |-> 0]
ChunkDelay(rc) == Min(Pow2(rc), ChunkDelayCap)          \* min(2 ** retry_count, 30)
DownloadDelay(rc) == Min(Pow2(rc), DownloadDelayCap)    \* min(2 ** retry_count, 60)
\* (a backoff without its cap)
UploadDelay_NoCap(rc) == Pow2(rc)
UploadDelay(rc) == Min(Pow2(rc), UploadDelayCap)        \* min(2 ** retry_count, 120)

(* ------------------------------------------------------------------ *)
(* Initial state: nothing on disk, no process                         *)
(* ------------------------------------------------------------------ *)
\* the memory of the second process: where it is, its ledger, its resume
\* store, its recipe and the video path it uploads
OtherOff == [pc |-> "off", used_recipes |-> {}, resume_data |-> <<>>,
             recipe |-> NoItem, video_path |-> NoPath]

NoSel == [fresh |-> FALSE, hit |-> FALSE, stale |-> FALSE, path |-> NoPath]

ProcIdle ==
    /\ pc = "idle" /\ arg = NoItem /\ used_recipes = {} /\ resume_data = <<>>
    /\ recipe = NoItem /\ original_video_path = NoPath /\ temp_video_path = NoPath
    /\ retry_count = 0 /\ last_progress = 0 /\ stalled_count = 0
    /\ response = FALSE /\ last_exception = NoExc /\ result = "none"

HistIdle ==
    /\ calls = <<>> /\ sel = NoSel /\ fetched = FALSE /\ dl_pre = "none"
    /\ cp_ret = NoPath
    /\ cp_in = -1 /\ slept = NoSleep /\ up_slept = 0 /\ dl_failures = 0
    /\ dl_error = 0

\* no upload request is being built
NoTagRecipe == [dish_name |-> "", dish_type |-> "", taste_category |-> "",
                ingredients |-> <<>>]
\* youtube_link_extractor.py: a link, and the absence of one (None, or no
\* 'youtube_link' key); a file that does not exist
LinkIds == {10, 20}
NoLink == 0
NoLinks == [i \in Items |-> NoLink]
NoJson == [i \in Items |-> -1]
\* the extractor is not running
ExtOff == [pc |-> "off", log |-> <<>>, pos |-> 0, current_recipe_id |-> NoItem,
           youtube_links |-> NoLinks, paired |-> {}, no_update |-> FALSE,
           recipes_data |-> NoJson, recipes_file |-> NoJson, original |-> NoJson,
           bak_file |-> NoJson, links_file |-> NoJson]
TagsOff ==
    /\ tag_recipe = NoTagRecipe /\ tags = <<>> /\ tag_i = 0
    /\ built = <<>> /\ tag_pc = "off"
    /\ ext = ExtOff

Init ==
    /\ used_file = {} /\ resume_file = <<>>
    /\ fs = [p \in Paths |-> NoFile]
    /\ recipes = <<1, 2>>
    /\ url_ok \in {[i \in Items |-> TRUE], [i \in Items |-> i # 1]}
    /\ ProcIdle /\ HistIdle /\ other = OtherOff /\ faults_left = 0
    /\ published = [i \in Items |-> 0]
    /\ TagsOff

\* the process is gone: its memory with it
Gone ==
    /\ pc' = "idle" /\ arg' = NoItem /\ used_recipes' = {} /\ resume_data' = <<>>
    /\ recipe' = NoItem /\ original_video_path' = NoPath /\ temp_video_path' = NoPath
    /\ retry_count' = 0 /\ last_progress' = 0 /\ stalled_count' = 0
    /\ response' = FALSE /\ last_exception' = NoExc /\ result' = "none"
    /\ calls' = <<>> /\ sel' = NoSel /\ fetched' = FALSE /\ dl_pre' = "none"
    /\ cp_ret' = NoPath
    /\ cp_in' = -1 /\ slept' = NoSleep /\ up_slept' = 0 /\ dl_failures' = 0
    /\ dl_error' = 0
    /\ faults_left' = 0

\* an exception reaches process_single_recipe's handler: it returns None
ReturnNone == pc' = "returned" /\ result' = "none"

(* ------------------------------------------------------------------ *)
(* main and process_single_recipe                                     *)
(* ------------------------------------------------------------------ *)
\* what the run finds for recipe r when it selects it: no trace of r at all
\* (fresh), a record of an upload whose file is still there (hit), or a
\* record of an upload whose file is gone or was never recorded (stale)
Found(r) ==
    LET rec == IF Has(resume_file, r) THEN Get(resume_file, r)
               ELSE Rec(r, "none", NoPath)
        there == rec.status = "uploading" /\ rec.video_path \in Paths
                 /\ fs[rec.video_path] # NoFile
    IN  [fresh |-> ~Has(resume_file, r) /\ r \notin used_file,
         hit |-> there,
         stale |-> rec.status = "uploading" /\ ~there,
         path |-> IF there THEN rec.video_path ELSE NoPath]

\* main: RobustUploader(...) loads the ledger and the resume store; on a
\* ledger file that is not JSON json.load raises and the process ends there
Main(a) ==
    /\ pc = "idle"
    /\ IF used_file = TruncatedLedger
       THEN UNCHANGED <<pc, arg, used_recipes, resume_data, faults_left>>
       ELSE /\ pc' = "select" /\ arg' = a
            /\ used_recipes' = used_file
            /\ resume_data' = LoadResume(resume_file)
            /\ faults_left' = MaxFaults
    /\ UNCHANGED <<disk, world, result, recipe, original_video_path,
                   temp_video_path, loopv, hist, tagv>>

\* process_single_recipe, up to the choice between download and upload
Select ==
    /\ pc = "select"
    /\ \E r \in (IF arg # NoItem
                 THEN (IF GetRecipeById(recipes, arg) = NoItem \/ arg \in used_recipes
                       THEN {NoItem} ELSE {arg})
                 ELSE IF ~IsMapping(resume_data) /\ Ids(recipes) \ used_recipes # {}
                 THEN {NoItem}       \* self.resume_data.items(): AttributeError
                 ELSE GetNextRecipe(recipes, used_recipes, resume_data)) :
          IF r = NoItem
          THEN /\ ReturnNone
               /\ UNCHANGED <<recipe, arg, temp_video_path, sel>>
          ELSE LET path == ResumePath(resume_data, r)
               IN  /\ recipe' = r
                   /\ arg' = r            \* recipe_id = str(recipe['id'])
                   /\ temp_video_path' = path
                   /\ sel' = Found(r)
                   /\ pc' = IF path = NoPath THEN "dl_enter" ELSE "up_enter"
                   /\ UNCHANGED result
    /\ UNCHANGED <<disk, world, faults_left, used_recipes, resume_data,
                   original_video_path, loopv, published, calls, fetched, dl_pre,
                   dl_failures, dl_error,
                   cp_in, cp_ret, slept, up_slept, tagv>>
(* ------------------------------------------------------------------ *)
(* download_video                                                     *)
(* ------------------------------------------------------------------ *)
\* (a download that never reuses the artifact)
ShortCircuit_Never(f) == FALSE
\* whether download_video returns the artifact it finds
ShortCircuit(f) == f # NoFile /\ f.size > ValidSize

\* entry: the resume record of the recipe is replaced and saved
DownloadEnter ==
    /\ pc = "dl_enter"
    /\ IF IsMapping(resume_data)
       THEN /\ resume_data' = Put(resume_data, Rec(recipe, "downloading", NoPath))
            /\ resume_file' = resume_data'
            /\ pc' = "dl_check"
            /\ UNCHANGED result
       ELSE \* self.resume_data[recipe_id] = {...}: TypeError
            /\ ReturnNone
            /\ UNCHANGED <<resume_data, resume_file>>
    /\ calls' = Append(calls, "download")
    /\ dl_failures' = 0 /\ dl_error' = 0
    /\ dl_pre' = IF fs[OriginalPath(recipe)] = NoFile THEN "absent"
                 ELSE IF SizeOf(OriginalPath(recipe)) > ValidSize THEN "valid"
                 ELSE "invalid"
    /\ fetched' = FALSE
    /\ slept' = NoSleep
    /\ UNCHANGED <<used_file, fs, world, faults_left, arg, used_recipes,
                   recipe, original_video_path, temp_video_path, loopv,
                   published, sel, cp_in, cp_ret, up_slept, tagv>>

\* the existing artifact is returned, or the URL is rejected, or the loop starts
DownloadCheck ==
    /\ pc = "dl_check"
    /\ IF ShortCircuit(fs[OriginalPath(recipe)])
       THEN /\ original_video_path' = OriginalPath(recipe)
            /\ pc' = "cp_enter"
            /\ UNCHANGED <<retry_count, result>>
       ELSE IF ~url_ok[recipe]
       THEN /\ ReturnNone                      \* ValueError
            /\ UNCHANGED <<original_video_path, retry_count>>
       ELSE /\ retry_count' = 0
            /\ pc' = "dl_attempt"
            /\ UNCHANGED <<original_video_path, result>>
    /\ UNCHANGED <<disk, world, faults_left, arg, used_recipes, resume_data,
                   recipe, temp_video_path, last_progress, stalled_count,
                   response, last_exception, hist, tagv>>

\* one attempt begins: a new request and an empty buffer
DownloadAttempt ==
    /\ pc = "dl_attempt"
    /\ retry_count < DownloadMaxRetries
    /\ pc' = "dl_chunk"
    /\ UNCHANGED <<disk, world, result, faults_left, locals, loopv, hist, tagv>>

\* except socket.timeout of the attempt (a timeout raised outside next_chunk)
DownloadTimeout ==
    /\ pc = "dl_attempt"
    /\ MayFail /\ Spend
    /\ dl_failures < MaxTimeouts /\ dl_failures' = dl_failures + 1
    /\ dl_error' = 0
    /\ retry_count' = retry_count + 1
    /\ IF retry_count' < DownloadMaxRetries
       THEN /\ slept' = [slept EXCEPT !["timeout"] = DownloadDelay(retry_count')]
            /\ pc' = "dl_attempt"
            /\ UNCHANGED result
       ELSE /\ ReturnNone
            /\ UNCHANGED slept
    /\ UNCHANGED <<disk, world, locals, last_progress, stalled_count, response,
                   last_exception, published, calls, sel, fetched, dl_pre,
                   cp_in, cp_ret, up_slept, tagv>>

\* what another error of downloader.next_chunk() may be: an HttpError of the
\* remote source with one of these statuses, or (0) an error of another kind
DownloadStatuses == {0, 404, 500}

\* downloader.next_chunk(): more to come, done, a timeout, or another error
DownloadChunk ==
    /\ pc = "dl_chunk"
    /\ fetched' = TRUE
    /\ \E o \in {"more", "done", "timeout", "error"} :
          CASE o = "more" ->
                 UNCHANGED <<pc, retry_count, slept, result, faults_left, dl_failures,
                             dl_error>>
            [] o = "done" ->
                 /\ pc' = "dl_write"
                 /\ UNCHANGED <<retry_count, slept, result, faults_left, dl_failures,
                                dl_error>>
            [] o = "timeout" ->
                 /\ MayFail /\ Spend
                 /\ dl_failures < MaxTimeouts /\ dl_failures' = dl_failures + 1
                 /\ dl_error' = 0
                 /\ slept' = [slept EXCEPT !["timeout"] = ChunkDelay(retry_count)]
                 /\ UNCHANGED <<pc, retry_count, result>>
            [] o = "error" ->
                 /\ MayFail /\ Spend
                 /\ dl_failures < MaxTimeouts /\ dl_failures' = dl_failures + 1
                 /\ \E status \in DownloadStatuses : dl_error' = status
                 /\ retry_count' = retry_count + 1
                 /\ IF retry_count' < DownloadMaxRetries
                    THEN /\ slept' = [slept EXCEPT !["other"] = DownloadErrorDelay]
                         /\ pc' = "dl_attempt"
                         /\ UNCHANGED result
                    ELSE /\ ReturnNone
                         /\ UNCHANGED slept
    /\ UNCHANGED <<disk, world, locals, last_progress, stalled_count, response,
                   last_exception, published, calls, sel, dl_pre, cp_in, cp_ret,
                   up_slept, tagv>>

\* the buffer is written to original_<id>.mp4 and the path returned; or the
\* write raises (OSError, the disk is full) after open(..., 'wb') has
\* truncated the file, and except Exception counts a retry
DownloadWrite ==
    /\ pc = "dl_write"
    /\ \/ /\ fs' = [fs EXCEPT ![OriginalPath(recipe)] = File(SrcSize(recipe), TRUE)]
          /\ original_video_path' = OriginalPath(recipe)
          /\ retry_count' = 0 /\ slept' = NoSleep   \* the call's locals end with it
          /\ dl_failures' = 0 /\ dl_error' = 0
          /\ pc' = "cp_enter"
          /\ UNCHANGED <<result, faults_left>>
       \/ /\ MayFail /\ Spend
          /\ dl_failures < MaxTimeouts /\ dl_failures' = dl_failures + 1
          /\ dl_error' = 0
          /\ \E s \in Partial(SrcSize(recipe)) :
                fs' = [fs EXCEPT ![OriginalPath(recipe)] = File(s, FALSE)]
          /\ retry_count' = retry_count + 1
          /\ IF retry_count' < DownloadMaxRetries
             THEN /\ slept' = [slept EXCEPT !["other"] = DownloadErrorDelay]
                  /\ pc' = "dl_attempt"
                  /\ UNCHANGED result
             ELSE /\ ReturnNone
                  /\ UNCHANGED slept
          /\ UNCHANGED original_video_path
    /\ UNCHANGED <<used_file, resume_file, world, arg,
                   used_recipes, resume_data, recipe, temp_video_path,
                   last_progress, stalled_count, response, last_exception,
                   published, calls, sel, fetched, dl_pre, cp_in, cp_ret, up_slept, tagv>>

(* ------------------------------------------------------------------ *)
(* compress_video                                                     *)
(* ------------------------------------------------------------------ *)
\* whether compress_video returns the compressed artifact it finds
ReuseCompressed(f) == f # NoFile /\ f.size > ValidSize
\* (the size of the output is not compared with the input)
Rejected_Never(out, in) == FALSE
\* output_size > input_size * 0.9: the output is discarded
Rejected(out, in) == 10 * out > 9 * in
\* input_size < 10, input_size in MB
IsSmall(in) == in < SmallVideoMB * MiB

\* entry: the status of the record becomes 'compressing' and is saved
CompressEnter ==
    /\ pc = "cp_enter"
    /\ resume_data' = Put(resume_data,
                          Rec(recipe, "compressing", Get(resume_data, recipe).video_path))
    /\ resume_file' = resume_data'
    /\ calls' = Append(calls, "compress")
    /\ cp_in' = SizeOf(original_video_path) /\ UNCHANGED cp_ret
    /\ fetched' = FALSE /\ dl_pre' = "none"
    /\ pc' = "cp_check"
    /\ UNCHANGED <<used_file, fs, world, result, faults_left, arg, used_recipes,
                   recipe, original_video_path, temp_video_path, loopv,
                   published, sel, dl_failures, dl_error, slept, up_slept, tagv>>

\* an existing output is reused; no encoder or a small input: the input is returned
CompressCheck ==
    /\ pc = "cp_check"
    /\ \E ffmpeg \in BOOLEAN :
          IF ReuseCompressed(fs[CompressedPath(recipe)])
          THEN temp_video_path' = CompressedPath(recipe) /\ pc' = "up_enter"
          ELSE IF ~ffmpeg \/ ~Exists(original_video_path)
                  \/ IsSmall(SizeOf(original_video_path))
          THEN temp_video_path' = original_video_path /\ pc' = "up_enter"
          ELSE UNCHANGED temp_video_path /\ pc' = "cp_ffmpeg"
    /\ UNCHANGED <<disk, world, result, faults_left, arg, used_recipes,
                   resume_data, recipe, original_video_path, loopv, hist, tagv>>

\* the duration is probed and the encoder runs; its result is validated
CompressFfmpeg ==
    /\ pc = "cp_ffmpeg"
    /\ \E duration \in {0, DefaultDuration},
          o \in {"failed", "missing", "written"}, size \in {GoodOut, LargeOut} :
          LET out == CompressedPath(recipe)
              in == SizeOf(original_video_path)
          IN  IF duration = 0
              THEN \* ZeroDivisionError: the encoder is not run
                   /\ UNCHANGED fs
                   /\ temp_video_path' = original_video_path
              ELSE IF o = "failed"
              THEN /\ \E f \in {fs[out], NoFile, File(StubSize, FALSE)} :
                         fs' = [fs EXCEPT ![out] = f]
                   /\ temp_video_path' = original_video_path
              ELSE IF o = "missing"
              THEN /\ fs' = [fs EXCEPT ![out] = NoFile]
                   /\ temp_video_path' = original_video_path
              ELSE /\ fs' = [fs EXCEPT ![out] = File(size, TRUE)]
                   /\ temp_video_path' = IF Rejected(size, in) THEN original_video_path
                                         ELSE out
    /\ pc' = "up_enter"
    /\ UNCHANGED <<used_file, resume_file, world, result, faults_left, arg,
                   used_recipes, resume_data, recipe, original_video_path, loopv,
                   hist, tagv>>

(* ------------------------------------------------------------------ *)
(* upload_to_youtube                                                  *)
(* ------------------------------------------------------------------ *)
\* e.resp.status in [500, 502, 503, 504]
ServerErrors == {500, 502, 503, 504}
\* (every HTTP error taken for a server error)
IsServerError_All(status) == TRUE
\* (only the first status of the list is compared)
IsServerError_Only500(status) == status = 500
IsServerError(status) == status \in ServerErrors
\* statuses the destination may answer with
HttpStatuses == {400, 403, 500, 501, 503}

\* (the pair unpacked the wrong way round: response is bound to the status)
ResponseOf_Swapped(kind) == TRUE
\* status, response = upload_request.next_chunk(): what response is bound to
ResponseOf(kind) == kind = "final"

\* entry: status 'uploading' and the video path are recorded and saved; the
\* request body is built and the upload session is created
UploadEnter ==
    /\ pc = "up_enter"
    /\ IF ~Has(resume_data, recipe)
       THEN \* KeyError
            /\ ReturnNone
            /\ UNCHANGED <<resume_data, resume_file, calls>>
       ELSE /\ resume_data' = Put(resume_data, Rec(recipe, "uploading", temp_video_path))
            /\ resume_file' = resume_data'
            /\ calls' = Append(calls, "upload")
            /\ IF Exists(temp_video_path)
               THEN pc' = "up_loop" /\ UNCHANGED result
               ELSE ReturnNone        \* os.path.getsize raises
    /\ retry_count' = 0 /\ last_progress' = 0 /\ stalled_count' = 0
    /\ response' = FALSE /\ last_exception' = NoExc
    /\ cp_in' = -1 /\ cp_ret' = NoPath /\ up_slept' = 0
    /\ UNCHANGED <<used_file, fs, world, faults_left, arg, used_recipes, recipe,
                   original_video_path, temp_video_path, published, sel,
                   fetched, dl_pre, dl_failures, dl_error, slept, tagv>>

\* (a retried error that is not counted)
UploadRetry_NoCount(e) ==
    /\ MayFail /\ Spend
    /\ last_exception' = e
    /\ UNCHANGED <<retry_count, up_slept, pc, result>>
\* a retried error: the counter, the backoff, and the give-up
UploadRetry(e) ==
    /\ MayFail /\ Spend
    /\ last_exception' = e
    /\ retry_count' = retry_count + 1
    /\ up_slept' = UploadDelay(retry_count')
    /\ IF retry_count' >= UploadMaxRetries
       THEN ReturnNone
       ELSE UNCHANGED <<pc, result>>

\* one turn of the loop: upload_request.next_chunk() and its handlers
UploadChunk ==
    /\ pc = "up_loop"
    /\ ~response /\ retry_count < UploadMaxRetries
    /\ \/ \E p \in Pcts :                       \* (status, None)
            /\ p >= last_progress
            /\ UNCHANGED published
            /\ IF ResponseOf("status")
               THEN /\ response' = TRUE
                    /\ pc' = "up_commit"
                    /\ UNCHANGED <<result, faults_left, retry_count, last_progress,
                                   stalled_count, last_exception, up_slept>>
               ELSE /\ UNCHANGED response
                    /\ IF p = last_progress
                       THEN /\ stalled_count' = stalled_count + 1
                            /\ UNCHANGED last_progress
                            /\ IF stalled_count' > StallLimit
                               THEN UploadRetry(Exc("timeout", 0))  \* "Upload stalled"
                               ELSE /\ MayFail /\ Spend
                                    /\ last_exception' = NoExc
                                    /\ UNCHANGED <<pc, result, retry_count, up_slept>>
                       ELSE /\ stalled_count' = 0
                            /\ last_progress' = p
                            /\ last_exception' = NoExc
                            /\ UNCHANGED <<pc, result, faults_left, retry_count,
                                           up_slept>>
       \/ /\ published[recipe] < MaxPublish     \* (None, response): published
          /\ published' = [published EXCEPT ![recipe] = @ + 1]
          /\ response' = ResponseOf("final")
          /\ pc' = "up_commit"
          \* the loop is over: its locals are not read again
          /\ retry_count' = 0 /\ last_progress' = 0 /\ stalled_count' = 0
          /\ last_exception' = NoExc /\ up_slept' = 0
          /\ UNCHANGED <<result, faults_left>>
       \/ /\ UploadRetry(Exc("timeout", 0))     \* socket.timeout
          /\ UNCHANGED <<last_progress, stalled_count, response, published>>
       \/ \E status \in HttpStatuses :          \* HttpError
            /\ IF IsServerError(status)
               THEN UploadRetry(Exc("http", status))
               ELSE /\ last_exception' = Exc("http", status)
                    /\ ReturnNone
                    /\ UNCHANGED <<retry_count, up_slept, faults_left>>
            /\ UNCHANGED <<last_progress, stalled_count, response, published>>
       \/ /\ UploadRetry(Exc("other", 0))       \* any other exception
          /\ UNCHANGED <<last_progress, stalled_count, response, published>>
    /\ UNCHANGED <<disk, world, locals, calls, sel, fetched, dl_pre, dl_failures, dl_error, cp_in, cp_ret,
                   slept, tagv>>

\* if response: the id is added to the ledger and the ledger is written
UploadCommit ==
    /\ pc = "up_commit"
    /\ response
    /\ used_recipes' = used_recipes \cup {recipe}
    /\ used_file' = used_recipes'
    /\ pc' = "up_clear"
    /\ UNCHANGED <<resume_file, fs, world, result, faults_left, arg, resume_data,
                   recipe, original_video_path, temp_video_path, loopv, hist, tagv>>

\* the resume record is deleted and the store saved; the URL is returned
UploadClear ==
    /\ pc = "up_clear"
    /\ IF Has(resume_data, recipe)
       THEN /\ resume_data' = Del(resume_data, recipe)
            /\ resume_file' = resume_data'
       ELSE UNCHANGED <<resume_data, resume_file>>
    /\ pc' = "cl_original"
    /\ UNCHANGED <<used_file, fs, world, result, faults_left, arg, used_recipes,
                   recipe, original_video_path, temp_video_path, loopv, hist, tagv>>

(* ------------------------------------------------------------------ *)
(* cleanup, return, exit, kill                                        *)
(* ------------------------------------------------------------------ *)
\* cleanup: os.remove(original_<id>.mp4) if it exists
CleanupOriginal ==
    /\ pc = "cl_original"
    /\ fs' = [fs EXCEPT ![OriginalPath(recipe)] = NoFile]
    /\ pc' = "cl_compressed"
    /\ UNCHANGED <<used_file, resume_file, world, result, faults_left, locals,
                   loopv, hist, tagv>>

\* cleanup: os.remove(compressed_<id>.mp4) if it exists; the URL is returned
CleanupCompressed ==
    /\ pc = "cl_compressed"
    /\ fs' = [fs EXCEPT ![CompressedPath(recipe)] = NoFile]
    /\ pc' = "returned" /\ result' = "url"
    /\ UNCHANGED <<used_file, resume_file, world, faults_left, locals, loopv,
                   hist, tagv>>

\* main returns: the process ends
Exit ==
    /\ pc = "returned"
    /\ Gone
    /\ UNCHANGED <<disk, world, published, tagv>>

\* the process is killed; a file that was being written stays truncated
Kill ==
    /\ pc \notin {"idle", "returned"}
    /\ Gone
    /\ \/ UNCHANGED <<fs, used_file>>
       \/ /\ pc = "dl_write"
          /\ \E s \in Partial(SrcSize(recipe)) :
                fs' = [fs EXCEPT ![OriginalPath(recipe)] = File(s, FALSE)]
          /\ UNCHANGED used_file
       \/ /\ pc = "cp_ffmpeg"
          /\ \E s \in Partial(LargeOut) :
                fs' = [fs EXCEPT ![CompressedPath(recipe)] = File(s, FALSE)]
          /\ UNCHANGED used_file
       \/ \* between open(self.used_recipes_file, 'w') and json.dump
          /\ pc = "up_commit"
          /\ used_file' = TruncatedLedger
          /\ UNCHANGED fs
    /\ UNCHANGED <<resume_file, world, published, tagv>>

Args == {NoItem, UnknownId} \cup Items

Next ==
    \/ \E a \in Args : Main(a)
    \/ Select
    \/ DownloadEnter \/ DownloadCheck \/ DownloadAttempt \/ DownloadTimeout
    \/ DownloadChunk \/ DownloadWrite
    \/ CompressEnter \/ CompressCheck \/ CompressFfmpeg
    \/ UploadEnter \/ UploadChunk \/ UploadCommit \/ UploadClear
    \/ CleanupOriginal \/ CleanupCompressed
    \/ Exit \/ Kill

Spec == Init /\ [][Next]_vars

(* ------------------------------------------------------------------ *)
(* One run of process_single_recipe for a requested recipe on an      *)
(* empty temp directory, with any number of network failures and no   *)
(* kill                                                               *)
(* ------------------------------------------------------------------ *)
InitRun ==
    /\ used_file = {} /\ resume_file = <<>>
    /\ fs = [p \in Paths |-> NoFile]
    /\ recipes = <<1, 2>>
    /\ url_ok = [i \in Items |-> TRUE]
    /\ pc = "select" /\ arg \in Items /\ used_recipes = {} /\ resume_data = <<>>
    /\ recipe = NoItem /\ original_video_path = NoPath /\ temp_video_path = NoPath
    /\ retry_count = 0 /\ last_progress = 0 /\ stalled_count = 0
    /\ response = FALSE /\ last_exception = NoExc /\ result = "none"
    /\ HistIdle /\ other = OtherOff /\ faults_left = -1
    /\ published = [i \in Items |-> 0]
    /\ TagsOff

NextRun ==
    \/ Select
    \/ DownloadEnter \/ DownloadCheck \/ DownloadAttempt \/ DownloadTimeout
    \/ DownloadChunk \/ DownloadWrite
    \/ CompressEnter \/ CompressCheck \/ CompressFfmpeg
    \/ UploadEnter \/ UploadChunk \/ UploadCommit \/ UploadClear
    \/ CleanupOriginal \/ CleanupCompressed
    \/ Exit

SpecRun == InitRun /\ [][NextRun]_vars

(* ================================================================== *)
(* Properties                                                         *)
(* ================================================================== *)
LastCall == IF calls = <<>> THEN "none" ELSE calls[Len(calls)]

\* C1: over all runs, kills and restarts, the destination confirms a publish
\* of an item at most once.
C1_PublishedAtMostOnce == \A i \in Items : published[i] <= 1

\* C2: an id is in the ledger, in memory or on disk, only if the destination
\* has returned a final response for an upload of that item.
C2_LedgerOnlyAfterConfirmation ==
    \A i \in Items : i \in used_file \cup used_recipes => published[i] >= 1
C2_Witness == pc = "up_clear" /\ recipe \in used_file

\* C3: a run that finds no trace of its item and in which no stage fails has
\* entered download, compression and upload once each, in this order, and
\* after the upload the ledger file holds the id and the resume file has no
\* record of it.
C3_FreshRunInOrder ==
    (sel.fresh /\ (pc \in {"cl_original", "cl_compressed"}
                   \/ (pc = "returned" /\ result = "url")))
        => /\ calls = <<"download", "compress", "upload">>
           /\ recipe \in used_file
           /\ ~Has(resume_file, recipe)
C3_Witness == sel.fresh /\ pc = "returned" /\ result = "url"

\* C4: a run that selects an item whose record says 'uploading' with a video
\* path that exists calls neither download_video nor compress_video, and
\* calls upload_to_youtube with the recorded path.
C4_ResumeSkipsToUpload ==
    sel.hit => /\ calls \in {<<>>, <<"upload">>}
               /\ pc # "select" => temp_video_path = sel.path
               /\ pc \notin {"dl_enter", "dl_check", "dl_attempt", "dl_chunk",
                             "dl_write", "cp_enter", "cp_check", "cp_ffmpeg"}
C4_Witness == sel.hit /\ calls = <<"upload">> /\ pc = "up_loop"
              /\ temp_video_path = CompressedPath(recipe)

\* C5: after next_chunk fails with a client error the upload makes no further
\* call: the run has returned None, the id is not in the ledger and the
\* record of the item still says 'uploading'.
C5_ClientErrorNotRetried ==
    (last_exception.kind = "http" /\ last_exception.status \notin ServerErrors)
        => /\ pc = "returned" /\ result = "none"
           /\ recipe \notin used_file /\ recipe \notin used_recipes
           /\ Has(resume_file, recipe)
           /\ Get(resume_file, recipe).status = "uploading"
C5_Witness == last_exception = Exc("http", 400) /\ pc = "returned"

\* C7: the path compress_video returns names an existing file that is not
\* larger than the input file.
C7_CompressNeverLarger ==
    (pc = "up_enter" /\ LastCall = "compress")
        => /\ Exists(temp_video_path)
           /\ SizeOf(temp_video_path) <= cp_in

\* C9: a download_video call that finds original_<id>.mp4 larger than 1 MiB
\* sends no request to the remote source and returns that path.
C9_ValidArtifactNotFetched ==
    dl_pre = "valid"
        => /\ ~fetched
           /\ pc \in {"dl_check", "cp_enter"}
           /\ pc = "cp_enter" => original_video_path = OriginalPath(recipe)
C9_Witness == dl_pre = "valid" /\ pc = "cp_enter"

\* C10: within one download_video call the delays slept for one error class
\* never decrease and stay within 60 s; within one upload_to_youtube call
\* every delay is at least the one before it, whatever the classes of the two
\* errors (so also within each class), and stays within 120 s.
C10_BackoffMonotoneCapped ==
    [][ /\ (pc \in {"dl_attempt", "dl_chunk"} /\ pc' \in {"dl_attempt", "dl_chunk", "returned"})
            => \A c \in Classes : slept[c] <= slept'[c] /\ slept'[c] <= DownloadDelayCap
        /\ (pc = "up_loop" /\ pc' \in {"up_loop", "returned"})
            => up_slept <= up_slept' /\ up_slept' <= UploadDelayCap ]_vars
C10_Witness == pc = "up_loop" /\ up_slept = UploadDelayCap /\ retry_count = 8

(* ------------------------------------------------------------------ *)
(* Repeated unattended invocations `main()` with no --id: each process *)
(* runs to its end and the next one is started                        *)
(* ------------------------------------------------------------------ *)
NextAuto ==
    \/ Main(NoItem)
    \/ Select
    \/ DownloadEnter \/ DownloadCheck \/ DownloadAttempt \/ DownloadTimeout
    \/ DownloadChunk \/ DownloadWrite
    \/ CompressEnter \/ CompressCheck \/ CompressFfmpeg
    \/ UploadEnter \/ UploadChunk \/ UploadCommit \/ UploadClear
    \/ CleanupOriginal \/ CleanupCompressed
    \/ Exit

\* a started process always takes its next step, and a finished one is
\* always followed by another invocation
SpecAuto == Init /\ [][NextAuto]_vars /\ WF_vars(NextAuto)

\* C6: across repeated invocations with no id, every catalog item is
\* eventually selected for processing unless its id gets into the ledger.
C6_NoStarvation ==
    \A i \in Items : <>(recipe = i \/ i \in used_file)

(* ------------------------------------------------------------------ *)
(* upload_to_youtube: the tag list of the request body                *)
(* A string is a record of its text and its length; Rep(c, n) is the  *)
(* character c repeated n times, Lit(t, n) the literal t of n chars   *)
(* ------------------------------------------------------------------ *)
MaxIngredients == 2

Rep(c, n) == [text |-> c, n |-> n]
Lit(t, n) == [text |-> t, n |-> n]
StrLen(t) == t.n

RECURSIVE TotalLength(_)
TotalLength(ts) ==
    IF ts = <<>> THEN 0 ELSE StrLen(Head(ts)) + TotalLength(Tail(ts))

InTags(t, ts) == \E k \in 1..Len(ts) : ts[k] = t

\* the nine tags every request starts with
BaseTags(r) ==
    <<r.dish_name, r.dish_type, r.taste_category,
      Lit("recipe", 6), Lit("cooking", 7), Lit("food", 4),
      Lit("homemade", 8), Lit("chef", 4), Lit("delicious", 9)>>

\* an ingredient line is the sequence of its comma-separated parts, a part
\* the sequence of its whitespace-separated words;
\* ingredient.split(',')[0].split()[-1] is the last word of the first part
\* and raises IndexError when that part has no word
NoWord == Lit("", 0)
MainIngredient(ing) ==
    LET first == ing[1]
    IN  IF first = <<>> THEN NoWord ELSE first[Len(first)]

DishNames == {Rep("a", 12), Rep("a", 300)}
DishTypes == {Rep("b", 6), Rep("b", 100)}
TasteCategories == {Rep("c", 5), Rep("c", 100)}
IngredientLines ==
    { << <<>> >>,                                          \* ", chopped"
      << <<Rep("1", 1), Lit("cup", 3), Rep("d", 150)>> >>,  \* "1 cup ddd"
      << <<Rep("e", 150)>>, <<Lit("diced", 5)>> >>,         \* "eee, diced"
      << <<Lit("food", 4)>> >>,                             \* "food"
      << <<Rep("f", 200)>> >> }                             \* "fff"

RECURSIVE SeqsUpTo(_, _)
SeqsUpTo(S, n) ==
    IF n = 0 THEN {<<>>}
    ELSE LET shorter == SeqsUpTo(S, n - 1)
         IN  shorter \cup {Append(q, x) : q \in {t \in shorter : Len(t) = n - 1}, x \in S}

InitTags ==
    /\ used_file = {} /\ resume_file = <<>>
    /\ fs = [p \in Paths |-> NoFile]
    /\ recipes = <<1, 2>>
    /\ url_ok = [i \in Items |-> TRUE]
    /\ ProcIdle /\ HistIdle /\ other = OtherOff /\ faults_left = 0
    /\ published = [i \in Items |-> 0]
    /\ tag_recipe \in [dish_name : DishNames, dish_type : DishTypes,
                       taste_category : TasteCategories,
                       ingredients : SeqsUpTo(IngredientLines, MaxIngredients)]
    /\ tags = <<>> /\ tag_i = 0 /\ built = <<>> /\ tag_pc = "base"
    /\ ext = ExtOff

\* tags = [recipe['dish_name'], ..., "delicious"]
TagsBase ==
    /\ tag_pc = "base"
    /\ tags' = BaseTags(tag_recipe)
    /\ tag_pc' = "ingredients"
    /\ UNCHANGED <<disk, world, proc, hist, ext, tag_recipe, tag_i, built>>

\* one turn of `for ingredient in recipe['ingredients']`
TagsIngredient ==
    /\ tag_pc = "ingredients"
    /\ tag_i < Len(tag_recipe.ingredients)
    /\ LET main_ingredient == MainIngredient(tag_recipe.ingredients[tag_i + 1])
       IN  tags' = IF main_ingredient # NoWord /\ ~InTags(main_ingredient, tags)
                   THEN Append(tags, main_ingredient)
                   ELSE tags
    /\ tag_i' = tag_i + 1
    /\ UNCHANGED <<disk, world, proc, hist, ext, tag_recipe, built, tag_pc>>

\* the for loop ends: total_tags_length = sum(len(tag) for tag in tags)
TagsTotal ==
    /\ tag_pc = "ingredients"
    /\ tag_i = Len(tag_recipe.ingredients)
    /\ built' = tags
    /\ tag_pc' = "trim"
    /\ UNCHANGED <<disk, world, proc, hist, ext, tag_recipe, tags, tag_i>>

TrimAgain(ts) == TotalLength(ts) > TagCeiling /\ Len(ts) > MinTags

\* one turn of the while loop: tags.pop()
TagsPop ==
    /\ tag_pc = "trim"
    /\ TrimAgain(tags)
    /\ tags' = SubSeq(tags, 1, Len(tags) - 1)
    /\ UNCHANGED <<disk, world, proc, hist, ext, tag_recipe, tag_i, built, tag_pc>>

\* the while loop ends: body['snippet']['tags'] = tags
TagsBody ==
    /\ tag_pc = "trim"
    /\ ~TrimAgain(tags)
    /\ tag_pc' = "body"
    /\ UNCHANGED <<disk, world, proc, hist, ext, tag_recipe, tags, tag_i, built>>

NextTags == TagsBase \/ TagsIngredient \/ TagsTotal \/ TagsPop \/ TagsBody

SpecTags == InitTags /\ [][NextTags]_vars

\* C8: a tag list that was longer than 490 characters in total when it was
\* built goes into the request body with at most 490 characters in total
\* and at least 5 tags.
C8_TagsWithinCeiling ==
    (tag_pc = "body" /\ TotalLength(built) > TagCeiling)
        => TotalLength(tags) <= TagCeiling /\ Len(tags) >= MinTags

\* the status a stage writes into the resume record when it is entered
StatusOf(stage) ==
    CASE stage = "download" -> "downloading"
      [] stage = "compress" -> "compressing"
      [] stage = "upload" -> "uploading"
      [] OTHER -> "none"

\* the run has failed in one of the stages of its item
StageFailed == pc = "returned" /\ result = "none" /\ calls # <<>>

\* C11: when a run has failed in download, compression or upload, the ledger
\* file is what the run loaded and does not hold the item, the resume file
\* holds the item's record with the status of the stage that failed, and the
\* artifacts the run found or made are still on disk.
C11_FailureKeepsState ==
    StageFailed =>
        /\ used_file = used_recipes /\ recipe \notin used_file
        /\ Has(resume_file, recipe)
        /\ Get(resume_file, recipe).status = StatusOf(LastCall)
        /\ (dl_pre \in {"valid", "invalid"} => Exists(OriginalPath(recipe)))
        /\ (original_video_path # NoPath => Exists(original_video_path))
        /\ (temp_video_path # NoPath => Exists(temp_video_path))
C11_Witness ==
    /\ StageFailed /\ LastCall = "upload" /\ ~sel.hit
    /\ temp_video_path = CompressedPath(recipe)

(* ------------------------------------------------------------------ *)
(* get_next_recipe on the ledgers and resume stores a process can     *)
(* load: a catalog in any file order, some ids in the ledger, records *)
(* of runs that were killed or failed.  A record of an id that is in  *)
(* the ledger is one a kill left behind between the ledger write and  *)
(* the deletion of the record: its status is 'uploading'.             *)
(* ------------------------------------------------------------------ *)
MaxCatalog == 12                 \* ids of the largest catalog
MaxRecords == 2                  \* records in the resume store

Catalogs == {<<1, 2, 3>>, <<3, 1, 2>>, [k \in 1..MaxCatalog |-> k]}
Ledgers == SUBSET {1, 2, 3}
Stores(used) ==
    {rd \in SeqsUpTo({Rec(i, s, IF s = "uploading" THEN OriginalPath(i) ELSE NoPath) :
                          i \in {1, 2, 3}, s \in Statuses}, MaxRecords) :
        /\ \A j, k \in 1..Len(rd) : j # k => rd[j].id # rd[k].id
        /\ \A k \in 1..Len(rd) : rd[k].id \in used => rd[k].status = "uploading"}

InitSelect ==
    /\ fs = [p \in Paths |-> NoFile]
    /\ recipes \in Catalogs
    /\ url_ok = [i \in Items |-> TRUE]
    /\ used_file \in Ledgers /\ used_recipes = used_file
    /\ resume_file \in Stores(used_file) /\ resume_data = resume_file
    /\ pc = "select" /\ arg = NoItem
    /\ recipe = NoItem /\ original_video_path = NoPath /\ temp_video_path = NoPath
    /\ retry_count = 0 /\ last_progress = 0 /\ stalled_count = 0
    /\ response = FALSE /\ last_exception = NoExc /\ result = "none"
    /\ HistIdle /\ other = OtherOff /\ faults_left = 0
    /\ published = [i \in Items |-> 0]
    /\ TagsOff

SpecSelect == InitSelect /\ [][Select]_vars

\* the items get_next_recipe may return, and those of them in mid-pipeline
Eligible == Ids(recipes) \ used_recipes
MidPipeline ==
    {i \in Eligible : Has(resume_data, i) /\ Get(resume_data, i).status \in Statuses}
Selected == pc = "dl_enter" /\ recipe # NoItem

\* C12: when the resume store holds a mid-pipeline record of an eligible item,
\* the item selected is one with such a record.
C12_ResumeFirst == (Selected /\ MidPipeline # {}) => recipe \in MidPipeline

\* C13: when no eligible item is in mid-pipeline, the item selected is not in
\* the ledger and fewer than 10 eligible items have a lower id; with at most
\* 10 eligible items it is the one with the lowest id.
C13_LowestOrNearest ==
    (Selected /\ MidPipeline = {}) =>
        /\ recipe \in Eligible
        /\ Cardinality({j \in Eligible : j < recipe}) < RandomPool
        /\ (Cardinality(Eligible) <= RandomPool => \A j \in Eligible : recipe <= j)
C13_Witness ==
    /\ Selected /\ MidPipeline = {} /\ Cardinality(Eligible) > RandomPool
    /\ recipe = 11 /\ used_recipes = {1}

\* the process is in download_video, compress_video or upload_to_youtube,
\* before the destination has confirmed
InStage ==
    pc \in {"dl_enter", "dl_check", "dl_attempt", "dl_chunk", "dl_write",
            "cp_enter", "cp_check", "cp_ffmpeg", "up_enter", "up_loop"}

\* C14: while an item is downloaded, compressed or uploaded its id is not in
\* the ledger, in memory or on disk; and a run asked for an id that is in the
\* ledger returns None without changing the ledger file, the resume file or
\* the files of the temp directory.
C14_LedgerGatesProcessing ==
    /\ [](InStage => recipe \notin used_recipes \cup used_file)
    /\ [][(pc = "select" /\ arg # NoItem /\ arg \in used_recipes)
            => /\ disk' = disk
               /\ pc' \in {"returned", "idle"}
               /\ pc' = "returned" => (result' = "none" /\ calls' = <<>>)]_vars
C14_Witness ==
    /\ pc = "returned" /\ result = "none" /\ calls = <<>>
    /\ arg \in Items /\ arg \in used_file

\* one run that is not killed takes its next step as long as it has one
SpecRunLive == SpecRun /\ WF_vars(NextRun)

\* C15: upload_to_youtube is never in its loop with max_retries (15) retried
\* errors behind it, timeouts, stalls, server errors and other errors counted
\* together, and it always leaves the loop, also when the chunks keep
\* reporting the same percentage.
C15_UploadTerminates ==
    /\ [](pc = "up_loop" => retry_count < UploadMaxRetries)
    /\ (pc = "up_loop") ~> (pc # "up_loop")
C15_Witness ==
    /\ pc = "returned" /\ result = "none" /\ LastCall = "upload"
    /\ retry_count = UploadMaxRetries /\ stalled_count > StallLimit
    /\ last_exception = Exc("http", 503)

\* C16: download_video is never past max_retries (5) failed chunk requests in
\* one call, timeouts and other transport errors counted together: by then
\* it has failed.
C16_DownloadAttemptsBounded ==
    pc \in {"dl_attempt", "dl_chunk", "dl_write"} => dl_failures <= DownloadMaxRetries

(* ------------------------------------------------------------------ *)
(* The same processes started on a resume_data.json that is absent,   *)
(* empty, not JSON, or JSON that is no mapping                        *)
(* ------------------------------------------------------------------ *)
InitLoad ==
    /\ used_file = {}
    /\ resume_file \in {<<>>, Absent, NotJson, JsonList}
    /\ fs = [p \in Paths |-> NoFile]
    /\ recipes = <<1, 2>>
    /\ url_ok = [i \in Items |-> TRUE]
    /\ ProcIdle /\ HistIdle /\ other = OtherOff /\ faults_left = 0
    /\ published = [i \in Items |-> 0]
    /\ TagsOff

SpecLoad == InitLoad /\ [][Next]_vars

\* C17: a process that has loaded a resume_data.json that is absent or holds
\* no valid resume mapping has an empty resume store.
C17_MalformedResumeIsEmpty ==
    (pc = "select" /\ resume_file \in {Absent, NotJson, JsonList})
        => resume_data = <<>>

(* ------------------------------------------------------------------ *)
(* Two processes on the same used_recipes.json, resume_data.json and  *)
(* temp_videos: the one modelled above, started on empty files, and a *)
(* second `main()` started at any moment.  The second process is the  *)
(* same code in larger steps, one per write to a shared file; it      *)
(* meets no failure and finds no encoder.                             *)
(* ------------------------------------------------------------------ *)
\* main: the constructor loads both files
OtherMain(a) ==
    /\ other.pc = "off"
    /\ other' = [other EXCEPT !.pc = "select",
                              !.recipe = a,
                              !.used_recipes = used_file,
                              !.resume_data = LoadResume(resume_file)]
    /\ UNCHANGED <<disk, recipes, url_ok, proc, hist, tagv>>

\* process_single_recipe up to the resume check
OtherSelect ==
    /\ other.pc = "select"
    /\ \E r \in (IF other.recipe # NoItem
                 THEN (IF GetRecipeById(recipes, other.recipe) = NoItem
                          \/ other.recipe \in other.used_recipes
                       THEN {NoItem} ELSE {other.recipe})
                 ELSE GetNextRecipe(recipes, other.used_recipes, other.resume_data)) :
          IF r = NoItem
          THEN other' = [other EXCEPT !.pc = "done", !.recipe = NoItem]
          ELSE LET path == ResumePath(other.resume_data, r)
               IN  other' = [other EXCEPT
                                !.recipe = r,
                                !.video_path = path,
                                !.pc = IF path = NoPath THEN "download" ELSE "upload"]
    /\ UNCHANGED <<disk, recipes, url_ok, proc, hist, tagv>>

\* download_video: the record is replaced and saved, the artifact is reused
\* or fetched and written
OtherDownload ==
    /\ other.pc = "download"
    /\ LET rd == Put(other.resume_data, Rec(other.recipe, "downloading", NoPath))
           path == OriginalPath(other.recipe)
       IN  /\ resume_file' = rd
           /\ fs' = IF ShortCircuit(fs[path]) THEN fs
                    ELSE [fs EXCEPT ![path] = File(SrcSize(other.recipe), TRUE)]
           /\ other' = [other EXCEPT !.resume_data = rd, !.video_path = path,
                                     !.pc = "compress"]
    /\ UNCHANGED <<used_file, recipes, url_ok, proc, hist, tagv>>

\* compress_video: the status is saved; an existing output is reused, else
\* the input is returned
OtherCompress ==
    /\ other.pc = "compress"
    /\ LET rd == Put(other.resume_data, Rec(other.recipe, "compressing", NoPath))
           out == CompressedPath(other.recipe)
       IN  /\ resume_file' = rd
           /\ other' = [other EXCEPT
                           !.resume_data = rd,
                           !.video_path = IF ReuseCompressed(fs[out]) THEN out ELSE @,
                           !.pc = "upload"]
    /\ UNCHANGED <<used_file, fs, recipes, url_ok, proc, hist, tagv>>

\* upload_to_youtube: status and path are saved, the upload runs to its
\* final response
OtherUpload ==
    /\ other.pc = "upload"
    /\ published[other.recipe] < MaxPublish
    /\ LET rd == Put(other.resume_data,
                     Rec(other.recipe, "uploading", other.video_path))
       IN  /\ resume_file' = rd
           /\ IF Exists(other.video_path)
              THEN /\ published' = [published EXCEPT ![other.recipe] = @ + 1]
                   /\ other' = [other EXCEPT !.resume_data = rd, !.pc = "commit"]
              ELSE /\ UNCHANGED published          \* os.path.getsize raises
                   /\ other' = [other EXCEPT !.resume_data = rd, !.pc = "done"]
    /\ UNCHANGED <<used_file, fs, recipes, url_ok, proc, calls, sel, fetched,
                   dl_pre, dl_failures, dl_error, cp_in, cp_ret, slept, up_slept, tagv>>

\* the id is added to the ledger and the ledger is written
OtherCommit ==
    /\ other.pc = "commit"
    /\ LET used == other.used_recipes \cup {other.recipe}
       IN  /\ used_file' = used
           /\ other' = [other EXCEPT !.used_recipes = used, !.pc = "clear"]
    /\ UNCHANGED <<resume_file, fs, recipes, url_ok, proc, hist, tagv>>

\* the record is deleted and the store saved
OtherClear ==
    /\ other.pc = "clear"
    /\ LET rd == Del(other.resume_data, other.recipe)
       IN  /\ resume_file' = rd
           /\ other' = [other EXCEPT !.resume_data = rd, !.pc = "cleanup"]
    /\ UNCHANGED <<used_file, fs, recipes, url_ok, proc, hist, tagv>>

\* cleanup removes both artifacts; the process ends
OtherCleanup ==
    /\ other.pc = "cleanup"
    /\ fs' = [fs EXCEPT ![OriginalPath(other.recipe)] = NoFile,
                        ![CompressedPath(other.recipe)] = NoFile]
    /\ other' = [other EXCEPT !.pc = "done"]
    /\ UNCHANGED <<used_file, resume_file, recipes, url_ok, proc, hist, tagv>>

InitTwo ==
    /\ used_file = {} /\ resume_file = <<>>
    /\ fs = [p \in Paths |-> NoFile]
    /\ recipes = <<1, 2>>
    /\ url_ok = [i \in Items |-> TRUE]
    /\ other = OtherOff
    /\ pc = "select" /\ arg \in {NoItem} \cup Items
    /\ used_recipes = {} /\ resume_data = <<>>
    /\ recipe = NoItem /\ original_video_path = NoPath /\ temp_video_path = NoPath
    /\ retry_count = 0 /\ last_progress = 0 /\ stalled_count = 0
    /\ response = FALSE /\ last_exception = NoExc /\ result = "none"
    /\ HistIdle /\ faults_left = MaxFaults
    /\ published = [i \in Items |-> 0]
    /\ TagsOff

NextTwo ==
    \/ NextRun
    \/ \E a \in {NoItem} \cup Items : OtherMain(a)
    \/ OtherSelect \/ OtherDownload \/ OtherCompress \/ OtherUpload
    \/ OtherCommit \/ OtherClear \/ OtherCleanup

SpecTwo == InitTwo /\ [][NextTwo]_vars

BothFinished == pc \in {"returned", "idle"} /\ other.pc = "done"

\* C18: once two commands on the same files have both finished, every id
\* whose publish was confirmed is in the ledger file, no item was published
\* twice, and the resume file holds no record of an id of the ledger file.
C18_ConcurrentCommandsSafe ==
    BothFinished =>
        /\ \A i \in Items : published[i] >= 1 => i \in used_file
        /\ \A i \in Items : published[i] <= 1
        /\ \A i \in used_file : ~Has(resume_file, i)

\* C19: process_single_recipe returns a URL or None, and it returns a URL
\* exactly when, in this call, the destination gave the final response for
\* the selected item and the item's id was written to the ledger.
C19_UrlIffConfirmed ==
    pc = "returned" =>
        /\ result \in {"url", "none"}
        /\ result = "url" <=>
              /\ recipe # NoItem /\ LastCall = "upload" /\ response
              /\ published[recipe] >= 1
              /\ recipe \in used_recipes /\ recipe \in used_file
C19_Witness == pc = "returned" /\ result = "url" /\ sel.hit /\ calls = <<"upload">>

\* C20: once upload_to_youtube has added an id to the ledger and gone on,
\* used_recipes.json holds the set the process holds; and no step, of the
\* program or a kill, takes an id out of used_recipes.json.
C20_LedgerDurable ==
    /\ [](pc \in {"up_clear", "cl_original", "cl_compressed"}
            => used_file = used_recipes)
    /\ [][\A i \in Items : i \in used_file => i \in used_file']_vars

\* the stage whose work the process is in (after the stage has saved its
\* status, until it returns), "none" between stages
StageAtWork ==
    CASE pc \in {"dl_check", "dl_attempt", "dl_chunk", "dl_write"} -> "download"
      [] pc \in {"cp_check", "cp_ffmpeg"} -> "compress"
      [] pc \in {"up_loop", "up_commit"} -> "upload"
      [] OTHER -> "none"

Deletes(i) ==
    /\ pc # "cp_ffmpeg"
    /\ \E p \in {OriginalPath(i), CompressedPath(i)} :
          fs[p] # NoFile /\ fs'[p] = NoFile

\* C22: the ledger is written only after the confirmation, the resume record
\* is removed only after the ledger is written, the cleanup runs only after
\* the record is removed, and no step deletes an artifact of an item whose id
\* is not in used_recipes.json.
C22_SuccessOrder ==
    /\ [](pc = "up_clear" =>
            published[recipe] >= 1 /\ recipe \in used_file)
    /\ [](pc \in {"cl_original", "cl_compressed"} =>
            /\ published[recipe] >= 1 /\ recipe \in used_file
            /\ ~Has(resume_file, recipe))
    /\ [][\A i \in Items : Deletes(i) => i \in used_file /\ ~Has(resume_file, i)]_vars
C22_Witness ==
    /\ pc = "cl_compressed" /\ fs[OriginalPath(recipe)] = NoFile
    /\ Exists(CompressedPath(recipe)) /\ temp_video_path = CompressedPath(recipe)

(* ------------------------------------------------------------------ *)
(* The engine driven strictly sequentially: one `main()` after the    *)
(* other, with or without --id, each running to its end               *)
(* ------------------------------------------------------------------ *)
NextSeq ==
    \/ \E a \in Args : Main(a)
    \/ NextRun

SpecSeq == Init /\ [][NextSeq]_vars

\* the records of a store that name an upload and its file
UploadingWithPath(rd) ==
    {k \in 1..Len(rd) : rd[k].status = "uploading" /\ rd[k].video_path # NoPath}

\* C23: driven sequentially from an empty resume store, the store never holds
\* more than one record with status 'uploading' and a video_path.
C23_OneUploadingRecord ==
    /\ Cardinality(UploadingWithPath(resume_file)) <= 1
    /\ Cardinality(UploadingWithPath(resume_data)) <= 1

(* ------------------------------------------------------------------ *)
(* main's other two commands: --status and --cleanup                  *)
(* ------------------------------------------------------------------ *)
\* main with --status or --cleanup: the constructor loads both stores, then
\* the command runs; the constructor raises on a truncated ledger
Command(c) ==
    /\ pc = "idle"
    /\ IF used_file = TruncatedLedger
       THEN UNCHANGED <<pc, used_recipes, resume_data, faults_left>>
       ELSE /\ pc' = c
            /\ used_recipes' = used_file
            /\ resume_data' = LoadResume(resume_file)
            /\ faults_left' = MaxFaults
    /\ UNCHANGED <<disk, world, arg, result, recipe, original_video_path,
                   temp_video_path, loopv, hist, tagv>>

\* get_status_report: reads the catalog, the ledger and the resume store and
\* writes a dated report file; neither store and no artifact is written
StatusReport ==
    /\ pc = "status"
    /\ ReturnNone
    /\ UNCHANGED <<disk, world, locals, loopv, faults_left, hist, tagv>>

\* --cleanup, first half: shutil.rmtree(temp_dir); os.makedirs(temp_dir)
PurgeFiles ==
    /\ pc = "cleanup"
    /\ pc' = "cleanup_save"
    /\ fs' = [p \in Paths |-> IF p \in TempDir THEN NoFile ELSE fs[p]]
    /\ UNCHANGED <<used_file, resume_file, world, locals, loopv, result,
                   faults_left, hist, tagv>>

\* (the emptied store is not saved)
PurgeSave_NoSave ==
    /\ pc = "cleanup_save"
    /\ resume_data' = <<>>
    /\ ReturnNone
    /\ UNCHANGED <<disk, world, arg, used_recipes, recipe,
                   original_video_path, temp_video_path, loopv, faults_left,
                   hist, tagv>>
\* --cleanup, second half: self.resume_data = {}; self._save_resume_data()
PurgeSave ==
    /\ pc = "cleanup_save"
    /\ resume_data' = <<>>
    /\ resume_file' = <<>>
    /\ ReturnNone
    /\ UNCHANGED <<used_file, fs, world, arg, used_recipes, recipe,
                   original_video_path, temp_video_path, loopv, faults_left,
                   hist, tagv>>

NextOps ==
    \/ Next
    \/ Command("status") \/ StatusReport
    \/ Command("cleanup") \/ PurgeFiles \/ PurgeSave

SpecOps == Init /\ [][NextOps]_vars

\* C24: over all operations (the pipeline, the status command and the purge
\* command) a record that is in the persisted resume store is taken out of it
\* only when that item's upload has been confirmed.
C24_RecordRemovedOnlyOnConfirm ==
    [][\A i \in Items :
          Has(resume_file, i) /\ ~Has(resume_file', i) => published[i] >= 1]_vars

\* the step is a chunk completion that reported the same percentage as before
SamePercentage == pc = "up_loop" /\ stalled_count' = stalled_count + 1
\* the step ran the socket.timeout handler: counter up, exponential backoff
TimeoutHandled ==
    /\ last_exception' = Exc("timeout", 0)
    /\ retry_count' = retry_count + 1
    /\ up_slept' = UploadDelay(retry_count')

\* C25: a stall retry is forced when, and only when, five consecutive chunk
\* completions have reported no change of the percentage, and the forced retry
\* is handled as a transport timeout is (counter incremented, backoff slept).
C25_StallAtFive ==
    [][SamePercentage => (TimeoutHandled <=> stalled_count' >= StallLimit)]_vars

\* the step is next_chunk raising HttpError with status s
HttpErrorRaised(s) == pc = "up_loop" /\ last_exception' = Exc("http", s)
\* the HttpError handler's retry branch: counter up, backoff slept, and the
\* loop goes on unless the counter has reached max_retries
Retried ==
    /\ retry_count' = retry_count + 1
    /\ up_slept' = UploadDelay(retry_count')
    /\ (retry_count' < UploadMaxRetries => pc' = "up_loop" /\ result' = result)

ErrorClass(e) == e.kind
\* a non-retryable client error is re-raised as the HttpError it is
ClientErrorClass == "http"
\* upload_to_youtube gave up because the retry counter reached max_retries
Exhausted == pc = "returned" /\ retry_count >= UploadMaxRetries

\* C27: when upload_to_youtube gives up after exhausting its retries, the
\* error it reports is of a class other than the one reported for a
\* non-retryable client error, so that process_single_recipe can tell the
\* two outcomes apart.
C27_ExhaustionDistinct ==
    Exhausted => ErrorClass(last_exception) # ClientErrorClass

\* the step is download_video meeting a permanent error: the locator of the
\* item is malformed (ValueError), or next_chunk raised an HttpError with a
\* 4xx status (a missing source file is HTTP 404)
PermanentError ==
    \/ /\ pc = "dl_check" /\ pc' # "idle"
       /\ ~ShortCircuit(fs[OriginalPath(recipe)]) /\ ~url_ok[recipe]
    \/ /\ pc = "dl_chunk" /\ dl_failures' = dl_failures + 1
       /\ dl_error' \in 400..499

\* C28: a permanent error in download_video is surfaced immediately: the call
\* fails in that step, with no retry attempt counted and no backoff slept.
C28_PermanentNotRetried ==
    [][PermanentError =>
          pc' = "returned" /\ retry_count' = retry_count /\ slept' = slept]_vars

\* C29: wherever the process is killed during download_video, the writing of
\* the received bytes included, a later download_video call for the item hands
\* on to compression only an artifact that holds the complete source file.
C29_PartialNeverTaken ==
    pc = "cp_enter" => fs[original_video_path] = File(SrcSize(recipe), TRUE)

\* the step belongs to a compress_video call that found no compressed
\* artifact of the item, and the process is not killed in it
CompressFresh ==
    /\ pc \in {"cp_enter", "cp_check", "cp_ffmpeg"} /\ pc' # "idle"
    /\ ~Exists(CompressedPath(recipe))
\* the encoder's output is there, complete, and at most 90% of the input,
\* which is not below the small-file threshold
OutputAccepted ==
    LET out == fs'[CompressedPath(recipe)]
        in == SizeOf(original_video_path)
    IN  /\ out # NoFile /\ out.whole
        /\ 10 * out.size <= 9 * in
        /\ in >= SmallVideoMB * MiB

\* C30: compress_video, called for an item with no compressed artifact, never
\* raises (the pipeline goes on to the upload), and it returns the input path
\* unchanged unless the encoder has written a complete output that is at most
\* 90% of an input above the small-file threshold: so in every case of an
\* unavailable or failed encoder, a missing or too large output, a small input
\* or a zero duration.
C30_CompressNeverFatal ==
    [][CompressFresh =>
          /\ pc' \in {"cp_check", "cp_ffmpeg", "up_enter"} /\ result' = result
          /\ original_video_path' = original_video_path
          /\ pc' = "up_enter" =>
                \/ temp_video_path' = original_video_path
                \/ temp_video_path' = CompressedPath(recipe) /\ OutputAccepted]_vars
C30_Witness ==
    /\ pc = "up_enter" /\ temp_video_path = original_video_path
    /\ fs[CompressedPath(recipe)] = File(LargeOut, TRUE)

(* ------------------------------------------------------------------ *)
(* compress_video called twice on the same input                      *)
(* ------------------------------------------------------------------ *)
\* the state after download_video has returned original_<id>.mp4; the
\* compressed path holds nothing, a stub, or an output of an earlier run
InitCompress ==
    /\ used_file = {} /\ recipes = <<1, 2>>
    /\ url_ok = [i \in Items |-> TRUE]
    /\ pc = "cp_enter" /\ arg \in Items /\ recipe = arg /\ used_recipes = {}
    /\ resume_data = <<Rec(recipe, "downloading", NoPath)>>
    /\ resume_file = resume_data
    /\ \E c \in {NoFile, File(StubSize, FALSE), File(GoodOut, TRUE),
                 File(LargeOut, TRUE)} :
          fs = [p \in Paths |->
                  IF p = OriginalPath(recipe) THEN File(SrcSize(recipe), TRUE)
                  ELSE IF p = CompressedPath(recipe) THEN c ELSE NoFile]
    /\ original_video_path = OriginalPath(recipe) /\ temp_video_path = NoPath
    /\ retry_count = 0 /\ last_progress = 0 /\ stalled_count = 0
    /\ response = FALSE /\ last_exception = NoExc /\ result = "none"
    /\ calls = <<"download">> /\ sel = NoSel /\ fetched = FALSE /\ dl_pre = "none"
    /\ cp_in = -1 /\ cp_ret = NoPath /\ slept = NoSleep /\ up_slept = 0
    /\ dl_failures = 0 /\ dl_error = 0
    /\ other = OtherOff /\ faults_left = -1
    /\ published = [i \in Items |-> 0]
    /\ TagsOff

MaxCalls == 5        \* calls in a row: download_video, then compress_video

\* compress_video(input_path, recipe_id) is called once more with the
\* arguments of the call that has just returned
CompressAgain ==
    /\ pc = "up_enter" /\ Len(calls) < MaxCalls
    /\ cp_ret' = temp_video_path
    /\ temp_video_path' = NoPath
    /\ pc' = "cp_enter"
    /\ UNCHANGED <<disk, world, result, faults_left, arg, used_recipes,
                   resume_data, recipe, original_video_path, loopv, published,
                   calls, sel, fetched, dl_pre, dl_failures, dl_error, cp_in,
                   slept, up_slept, tagv>>

NextCompress == CompressEnter \/ CompressCheck \/ CompressFfmpeg \/ CompressAgain

SpecCompress == InitCompress /\ [][NextCompress]_vars

\* C31: a second compress_video call on the same input and id that does not
\* run the encoder (it reuses an artifact, finds no encoder, or finds the
\* input small) returns the path the first call returned.
C31_CompressIdempotent ==
    [][pc = "cp_check" /\ pc' = "up_enter" /\ cp_ret # NoPath
          => temp_video_path' = cp_ret]_vars

\* the step is a next_chunk call that returned without raising: a chunk was
\* sent and a percentage reported (the same as before or a higher one), or
\* the final response arrived
ChunkReturned ==
    /\ pc = "up_loop"
    /\ \/ SamePercentage
       \/ last_progress' > last_progress
       \/ published' # published

\* C32: an upload whose next_chunk calls all return without raising goes on to
\* the final response: a returned chunk never consumes a retry and never ends
\* the call in failure, however many chunks fall into one progress percent.
C32_ProgressNeverCounted ==
    [][ChunkReturned => retry_count' <= retry_count /\ pc' # "returned"]_vars

\* C33: whenever no process is running (the call has returned and the process
\* exited, or the process was killed), no id of the persisted ledger has a
\* record in the persisted resume store.
C33_LedgerIdsHaveNoRecord ==
    pc = "idle" => \A i \in Items : i \in used_file => ~Has(resume_file, i)

\* C34: when the record of the selected item says 'uploading' and its
\* video_path is absent or names no existing file, the run goes through the
\* whole pipeline in order (download_video, then compress_video, then
\* upload_to_youtube), and while download_video is at work the persisted
\* record of the item is a fresh 'downloading' record without video_path.
C34_StaleUploadRestarts ==
    (sel.stale /\ pc # "select") =>
        /\ pc \in {"dl_enter", "returned"} \/ calls # <<>>
        /\ \E n \in 0..3 : calls = SubSeq(<<"download", "compress", "upload">>, 1, n)
        /\ pc \in {"dl_check", "dl_attempt", "dl_chunk", "dl_write"} =>
              /\ Has(resume_file, recipe)
              /\ Get(resume_file, recipe) = Rec(recipe, "downloading", NoPath)
        /\ pc \in {"up_loop", "up_commit"} =>
              calls = <<"download", "compress", "upload">>
C34_Witness ==
    /\ sel.stale /\ pc = "up_loop"
    /\ calls = <<"download", "compress", "upload">>

\* C35: a download_video call that fails leaves original_<id>.mp4 as it was
\* before the call: if the file was absent when the call began, it is absent
\* when the call has raised.
C35_FailedDownloadLeavesFile ==
    (pc = "returned" /\ LastCall = "download" /\ dl_pre = "absent")
        => fs[OriginalPath(recipe)] = NoFile

\* C36: the status command, from its start to its end, changes neither the
\* persisted ledger nor the persisted resume store nor any artifact; the purge
\* command never changes the persisted ledger, and when it ends the persisted
\* resume store is empty and the temp directory holds no artifact.
C36_CommandsFrame ==
    [][ /\ (pc = "idle" /\ pc' \in {"status", "cleanup"}) => disk' = disk
        /\ pc = "status" => disk' = disk
        /\ pc \in {"cleanup", "cleanup_save"} => used_file' = used_file
        /\ (pc = "cleanup_save" /\ pc' = "returned") =>
              /\ resume_file' = <<>>
              /\ \A p \in TempDir : fs'[p] = NoFile ]_vars
C36_Witness ==
    /\ pc = "cleanup_save" /\ Len(resume_file) = 2 /\ used_file # {}
    /\ \A p \in TempDir : fs[p] = NoFile

(* ------------------------------------------------------------------ *)
(* The two earlier scripts: recipe_agent.py (RecipeVideoAgent) and    *)
(* fix_timeouts.py.  Both keep the ledger used_recipes.json and have  *)
(* no resume store; the video goes to ./temp_video_<id>.mp4.          *)
(* ------------------------------------------------------------------ *)
FixMaxRetries == 3       \* download_video_with_retry(max_retries=3)

\* what select_recipe, and the same lines of fix_timeouts, may pick, and the
\* set used_recipes they leave in memory: [id, used]
SelectUnused(rcps, used) ==
    IF Ids(rcps) \ used = {}
    THEN {[id |-> i, used |-> {}] : i \in Ids(rcps)}      \* the list is reset
    ELSE {[id |-> i, used |-> used] : i \in Ids(rcps) \ used}

\* the loop of a script's __main__ starts a run: RecipeVideoAgent.run() on the
\* agent built once (its constructor loads the ledger before the first run)
AgentRun ==
    /\ pc \in {"idle", "ag_done"}
    /\ Len(calls) < MaxCalls
    /\ used_recipes' = IF pc = "idle" THEN used_file ELSE used_recipes
    /\ calls' = Append(calls, "run")
    /\ pc' = "ag_select" /\ result' = "none"
    /\ recipe' = NoItem /\ temp_video_path' = NoPath
    /\ UNCHANGED <<disk, world, faults_left, arg, resume_data,
                   original_video_path, loopv, published, sel, fetched, dl_pre,
                   dl_failures, dl_error, cp_in, cp_ret, slept, up_slept, tagv>>

\* RecipeVideoAgent.select_recipe
AgentSelect ==
    /\ pc = "ag_select"
    /\ \E c \in SelectUnused(recipes, used_recipes) :
          recipe' = c.id /\ used_recipes' = c.used
    /\ pc' = "ag_download"
    /\ UNCHANGED <<disk, world, result, faults_left, arg, resume_data,
                   original_video_path, temp_video_path, loopv, hist, tagv>>

\* RecipeVideoAgent.download_video: one attempt, every error is raised
AgentDownload ==
    /\ pc = "ag_download"
    /\ \/ /\ url_ok[recipe]
          /\ fs' = [fs EXCEPT ![TempVideoPath(recipe)] = File(SrcSize(recipe), TRUE)]
          /\ temp_video_path' = TempVideoPath(recipe)
          /\ pc' = "ag_upload"
       \/ /\ pc' = "ag_done"
          /\ UNCHANGED <<fs, temp_video_path>>
    /\ UNCHANGED <<used_file, resume_file, world, result, faults_left, arg,
                   used_recipes, resume_data, recipe, original_video_path,
                   loopv, hist, tagv>>

\* RecipeVideoAgent.upload_to_youtube: the upload runs to its response, the
\* id is added to the ledger and the ledger is written; or an error is raised
AgentUpload ==
    /\ pc = "ag_upload"
    /\ \/ /\ published[recipe] < MaxPublish
          /\ published' = [published EXCEPT ![recipe] = @ + 1]
          /\ used_recipes' = used_recipes \cup {recipe}
          /\ used_file' = used_recipes'
          /\ pc' = "ag_cleanup"
       \/ /\ pc' = "ag_done"
          /\ UNCHANGED <<published, used_recipes, used_file>>
    /\ UNCHANGED <<resume_file, fs, world, result, faults_left, arg,
                   resume_data, recipe, original_video_path, temp_video_path,
                   loopv, calls, sel, fetched, dl_pre, dl_failures, dl_error,
                   cp_in, cp_ret, slept, up_slept, tagv>>

\* RecipeVideoAgent.cleanup, and run returns the URL
AgentCleanup ==
    /\ pc = "ag_cleanup"
    /\ fs' = [fs EXCEPT ![temp_video_path] = NoFile]
    /\ pc' = "ag_done" /\ result' = "url"
    /\ UNCHANGED <<used_file, resume_file, world, faults_left, locals, loopv,
                   hist, tagv>>

\* fix_timeouts.process_single_recipe(specific_id = a) is called by the loop
\* of __main__ (a = NoItem: no id): the ledger is loaded from its file
FixRun(a) ==
    /\ pc \in {"idle", "fx_done"}
    /\ Len(calls) < MaxCalls
    /\ used_recipes' = used_file
    /\ arg' = a
    /\ calls' = Append(calls, "run")
    /\ pc' = "fx_select" /\ result' = "none"
    /\ recipe' = NoItem /\ temp_video_path' = NoPath
    /\ retry_count' = 0 /\ dl_failures' = 0
    /\ UNCHANGED <<disk, world, faults_left, resume_data, original_video_path,
                   last_progress, stalled_count, response, last_exception,
                   published, sel, fetched, dl_pre, dl_error, cp_in, cp_ret,
                   slept, up_slept, tagv>>

\* the selection and the extraction of the file id
FixSelect ==
    /\ pc = "fx_select"
    /\ \E c \in (IF arg = NoItem THEN SelectUnused(recipes, used_recipes)
                 ELSE {[id |-> GetRecipeById(recipes, arg), used |-> used_recipes]}) :
          /\ recipe' = c.id /\ used_recipes' = c.used
          /\ pc' = IF c.id # NoItem /\ url_ok[c.id] THEN "fx_download" ELSE "fx_done"
    /\ UNCHANGED <<disk, world, result, faults_left, arg, resume_data,
                   original_video_path, temp_video_path, loopv, hist, tagv>>

\* download_video_with_retry: one turn of while retry_count < max_retries
FixDownload ==
    /\ pc = "fx_download"
    /\ \/ /\ fs' = [fs EXCEPT ![TempVideoPath(recipe)] = File(SrcSize(recipe), TRUE)]
          /\ temp_video_path' = TempVideoPath(recipe)
          /\ pc' = "fx_upload"
          /\ retry_count' = 0 /\ dl_failures' = 0
       \/ \* socket.timeout: counted, slept 5 s; after the last one the loop
          \* ends and the function raises
          /\ retry_count' = retry_count + 1
          /\ dl_failures' = dl_failures + 1
          /\ pc' = IF retry_count' < FixMaxRetries THEN "fx_download" ELSE "fx_done"
          /\ UNCHANGED <<fs, temp_video_path>>
       \/ \* any other error is raised at once
          /\ pc' = "fx_done"
          /\ UNCHANGED <<fs, temp_video_path, retry_count, dl_failures>>
    /\ UNCHANGED <<used_file, resume_file, world, result, faults_left, arg,
                   used_recipes, resume_data, recipe, original_video_path,
                   last_progress, stalled_count, response, last_exception,
                   published, calls, sel, fetched, dl_pre, dl_error, cp_in,
                   cp_ret, slept, up_slept, tagv>>

\* the upload loop while response is None, and the write of the ledger
FixUpload ==
    /\ pc = "fx_upload"
    /\ \/ /\ published[recipe] < MaxPublish
          /\ published' = [published EXCEPT ![recipe] = @ + 1]
          /\ used_recipes' = used_recipes \cup {recipe}
          /\ used_file' = used_recipes'
          /\ pc' = "fx_cleanup"
          /\ UNCHANGED dl_failures
       \/ \* socket.timeout: time.sleep(5); continue
          /\ dl_failures < MaxTimeouts /\ dl_failures' = dl_failures + 1
          /\ UNCHANGED <<pc, published, used_recipes, used_file>>
       \/ \* any other error: process_single_recipe returns None
          /\ pc' = "fx_done"
          /\ UNCHANGED <<published, used_recipes, used_file, dl_failures>>
    /\ UNCHANGED <<resume_file, fs, world, result, faults_left, arg,
                   resume_data, recipe, original_video_path, temp_video_path,
                   loopv, calls, sel, fetched, dl_pre, dl_error, cp_in, cp_ret,
                   slept, up_slept, tagv>>

\* os.remove(video_path), and the URL is returned
FixCleanup ==
    /\ pc = "fx_cleanup"
    /\ fs' = [fs EXCEPT ![temp_video_path] = NoFile]
    /\ pc' = "fx_done" /\ result' = "url"
    /\ UNCHANGED <<used_file, resume_file, world, faults_left, locals, loopv,
                   hist, tagv>>

\* either script is started on a ledger left by earlier runs
InitOld ==
    /\ used_file \in SUBSET Items /\ resume_file = <<>>
    /\ fs = [p \in Paths |-> NoFile]
    /\ recipes = <<1, 2>>
    /\ url_ok \in {[i \in Items |-> TRUE], [i \in Items |-> i # 1]}
    /\ ProcIdle /\ HistIdle /\ other = OtherOff /\ faults_left = 0
    /\ published = [i \in Items |-> IF i \in used_file THEN 1 ELSE 0]
    /\ TagsOff

NextOld ==
    \/ AgentRun \/ AgentSelect \/ AgentDownload \/ AgentUpload \/ AgentCleanup
    \/ \E a \in Args : FixRun(a)
    \/ FixSelect \/ FixDownload \/ FixUpload \/ FixCleanup

SpecOld == InitOld /\ [][NextOld]_vars

\* C37: a selection with no id given picks an item whose id the persisted
\* ledger does not contain at that time, and the ledger written after the
\* upload contains every id it contained before.
C37_SelectsUnusedKeepsLedger ==
    [][ /\ (pc \in {"ag_select", "fx_select"} /\ arg = NoItem /\ recipe' # NoItem)
              => recipe' \notin used_file
        /\ pc \in {"ag_upload", "fx_upload"} => used_file \subseteq used_file' ]_vars

\* C38: fix_timeouts.process_single_recipe ends for every pattern of network
\* timeouts: download_video_with_retry goes into another attempt only while
\* fewer than max_retries (3) attempts have timed out, and the upload loop
\* does not go on through every timed-out chunk request the model counts.
C38_FixTerminates ==
    /\ pc = "fx_download" => dl_failures < FixMaxRetries
    /\ pc = "fx_upload" => dl_failures < MaxTimeouts

(* ------------------------------------------------------------------ *)
(* youtube_link_extractor.py: main, extract_youtube_links,            *)
(* create_youtube_links_json and update_recipes_json                  *)
(* ------------------------------------------------------------------ *)
MaxLog == 4          \* lines of the log file

\* a log line: 'Processing recipe: ... (ID: d)', 'Video uploaded
\* successfully: <link>', or a line that matches neither pattern
IdLine(i) == [kind |-> "id", val |-> i]
LinkLine(l) == [kind |-> "link", val |-> l]
OtherLine == [kind |-> "other", val |-> 0]
LogLines == {IdLine(i) : i \in Items} \cup {LinkLine(l) : l \in LinkIds} \cup {OtherLine}

\* the line that gave current_recipe_id its value: the last 'Processing
\* recipe' line among the first n lines (0: none)
LastIdPos(lg, n) ==
    LET ids == {j \in 1..n : lg[j].kind = "id"}
    IN  IF ids = {} THEN 0 ELSE CHOOSE j \in ids : \A k \in ids : k <= j

\* (the id is kept after its link was stored)
AfterLink_Keep(id) == id
\* current_recipe_id = None  # Reset to avoid duplicate matching
AfterLink(id) == NoItem

\* the body of the loop over the recipes of update_recipes_json
WithLinks(data, links) ==
    [i \in Items |->
        IF links[i] # NoLink /\ (data[i] = NoLink \/ data[i] # links[i])
        THEN links[i] ELSE data[i]]

\* main is started on a log file and a recipes file; no .bak file is there
InitLinks ==
    /\ used_file = {} /\ resume_file = <<>>
    /\ fs = [p \in Paths |-> NoFile]
    /\ recipes = <<1, 2>>
    /\ url_ok = [i \in Items |-> TRUE]
    /\ ProcIdle /\ HistIdle /\ other = OtherOff /\ faults_left = 0
    /\ published = [i \in Items |-> 0]
    /\ tag_recipe = NoTagRecipe /\ tags = <<>> /\ tag_i = 0
    /\ built = <<>> /\ tag_pc = "off"
    /\ \E lg \in SeqsUpTo(LogLines, MaxLog), f \in [Items -> {NoLink, 10}],
          nu \in BOOLEAN :
          ext = [ExtOff EXCEPT !.pc = "scan", !.log = lg, !.pos = 1,
                               !.no_update = nu, !.recipes_file = f,
                               !.original = f]

\* extract_youtube_links: one line of the log
ExtractLine ==
    /\ ext.pc = "scan" /\ ext.pos <= Len(ext.log)
    /\ LET line == ext.log[ext.pos]
           cur == IF line.kind = "id" THEN line.val ELSE ext.current_recipe_id
           hit == line.kind = "link" /\ cur # NoItem
       IN  ext' = [ext EXCEPT
                     !.pos = @ + 1,
                     !.current_recipe_id = IF hit THEN AfterLink(cur) ELSE cur,
                     !.youtube_links = IF hit THEN [@ EXCEPT ![cur] = line.val] ELSE @,
                     !.paired = IF hit THEN @ \cup {LastIdPos(ext.log, ext.pos)} ELSE @]
    /\ UNCHANGED <<disk, world, proc, hist, tag_recipe, tags, tag_i, built, tag_pc>>

\* the log is read; main returns if no link was found, else it calls
\* create_youtube_links_json and, without --no-update, update_recipes_json
ExtractEnd ==
    /\ ext.pc = "scan" /\ ext.pos > Len(ext.log)
    /\ ext' = IF ext.youtube_links = NoLinks
              THEN [ext EXCEPT !.pc = "done"]
              ELSE [ext EXCEPT !.links_file = ext.youtube_links,
                               !.pc = IF ext.no_update THEN "done" ELSE "update"]
    /\ UNCHANGED <<disk, world, proc, hist, tag_recipe, tags, tag_i, built, tag_pc>>

\* update_recipes_json: the file is loaded and the links are put into the
\* loaded recipes
UpdateLoad ==
    /\ ext.pc = "update"
    /\ ext' = [ext EXCEPT !.recipes_data = WithLinks(ext.recipes_file, ext.youtube_links),
                          !.pc = "backup"]
    /\ UNCHANGED <<disk, world, proc, hist, tag_recipe, tags, tag_i, built, tag_pc>>

\* json.dump(recipes_data, f) to <recipes>.bak
UpdateBackup ==
    /\ ext.pc = "backup"
    /\ ext' = [ext EXCEPT !.bak_file = ext.recipes_data, !.pc = "save"]
    /\ UNCHANGED <<disk, world, proc, hist, tag_recipe, tags, tag_i, built, tag_pc>>

\* json.dump(recipes_data, f) to the recipes file; True is returned
UpdateSave ==
    /\ ext.pc = "save"
    /\ ext' = [ext EXCEPT !.recipes_file = ext.recipes_data, !.pc = "updated"]
    /\ UNCHANGED <<disk, world, proc, hist, tag_recipe, tags, tag_i, built, tag_pc>>

NextLinks == ExtractLine \/ ExtractEnd \/ UpdateLoad \/ UpdateBackup \/ UpdateSave

SpecLinks == InitLinks /\ [][NextLinks]_vars

\* C39: after a successful update_recipes_json the file <recipes>.bak holds
\* the recipes JSON as it was before the call, and the recipes file holds the
\* data with the links.
C39_BackupHoldsOriginal ==
    ext.pc = "updated" =>
        /\ ext.bak_file = ext.original
        /\ ext.recipes_file = WithLinks(ext.original, ext.youtube_links)

\* a link line is read by extract_youtube_links
LinkRead ==
    /\ ext.pc = "scan" /\ ext'.pos = ext.pos + 1
    /\ ext.log[ext.pos].kind = "link"

\* C40 as stated: each link goes to the id of the most recent preceding
\* 'Processing recipe' line that was not yet paired with a link, and is
\* dropped only if there is no such line.
C40_MostRecentUnpaired ==
    [][LinkRead =>
         LET free == {j \in 1..(ext.pos - 1) :
                         ext.log[j].kind = "id" /\ j \notin ext.paired}
             last == CHOOSE j \in free : \A k \in free : k <= j
         IN  ext'.youtube_links =
                 IF free = {} THEN ext.youtube_links
                 ELSE [ext.youtube_links EXCEPT ![ext.log[last].val] = ext.log[ext.pos].val]
      ]_vars

\* C40: each link goes to the id of the most recent preceding 'Processing
\* recipe' line if no link line lies between that line and the link, and is
\* dropped otherwise; no other line changes the extracted links.
C40_LinkToLastIdLine ==
    [][(ext.pc = "scan" /\ ext'.pos = ext.pos + 1) =>
         LET n == ext.pos
             line == ext.log[n]
             j == LastIdPos(ext.log, n - 1)
             fresh == j > 0 /\ \A k \in (j + 1)..(n - 1) : ext.log[k].kind # "link"
         IN  ext'.youtube_links =
                 IF line.kind = "link" /\ fresh
                 THEN [ext.youtube_links EXCEPT ![ext.log[j].val] = line.val]
                 ELSE ext.youtube_links
      ]_vars

\* the log id 1, id 2, link, link was read: the first link went to recipe 2,
\* the second was dropped
C40_Witness ==
    /\ ext.pc = "scan" /\ ext.pos = 5
    /\ ext.log = <<IdLine(1), IdLine(2), LinkLine(10), LinkLine(20)>>
    /\ ext.youtube_links = [i \in Items |-> IF i = 2 THEN 10 ELSE NoLink]
====
